---- MODULE Spec2Model ----
(***************************************************************************)
(* A model of df_enrich.accessor.EnrichAccessor: the facade bound to a     *)
(* pandas DataFrame (self._obj), its table-returning operations validate,  *)
(* derive, cast and lookup, profile, and config with the facade's own      *)
(* configuration store (self._config).                                     *)
(*                                                                         *)
(* Tables live in a heap of objects so that "a new table object" and "the  *)
(* caller's table is left alone" are statements about object identities.   *)
(* A table is a record                                                     *)
(*    cols  : the column labels, in order                                  *)
(*    data  : label -> [dtype, vals]   (one value per row)                 *)
(*    index : the row labels, in order                                     *)
(*    attrs : DataFrame.attrs, a function from keys to values              *)
(* Columns are numeric (int64 / float64); a missing value is NaN.          *)
(***************************************************************************)
EXTENDS Integers, Sequences, FiniteSets, TLC

VARIABLES
    heap,     \* object id -> table, for the tables that are still referenced
    obj,      \* self._obj: the id of the table the facade is bound to
    call,     \* the arguments of the call made on the facade (op = "none": no call yet)
    ret,      \* the outcome of that call: a returned table id or a raised exception
    warns,    \* the warnings.warn() records emitted by that call
    io,       \* what that call touched: the paths it opened, the expressions it evaluated,
              \* the resolver calls it made
    hist,     \* the operations applied so far along the chain df.enrich.op(..).enrich.op(..)
    nextId,   \* the next unused object id
    self,     \* the id of the facade object (the EnrichAccessor instance)
    config,   \* self._config: option name -> value
    nconfig   \* the number of config calls made so far

vars == <<heap, obj, call, ret, warns, io, hist, nextId, self, config, nconfig>>

\* The longest chain of calls explored.
MaxCalls == 3

\* isnull(): the missing value of a numeric column. Every real value is >= 0.
NaN == -1

------------------------------------------------------------------------------
(* Generic helpers on sequences and Python dicts.  A dict is the sequence  *)
(* of its <<key, value>> items in insertion order, keys pairwise distinct. *)

Range(s) == {s[i] : i \in 1..Len(s)}

Keys(d) == [i \in 1..Len(d) |-> d[i][1]]

RECURSIVE Filter(_, _)
\* [x for x in s if x \in keep], order kept
Filter(s, keep) ==
    IF s = <<>> THEN <<>>
    ELSE IF Head(s) \in keep THEN <<Head(s)>> \o Filter(Tail(s), keep)
         ELSE Filter(Tail(s), keep)

RECURSIVE SumSeq(_)
SumSeq(s) == IF s = <<>> THEN 0 ELSE Head(s) + SumSeq(Tail(s))

NoAttrs == [k \in {} |-> TRUE]

------------------------------------------------------------------------------
(* pandas DataFrame primitives used by the accessor.                       *)

Columns(t) == Range(t.cols)

\* df[c] = series
SetItem(t, c, series) ==
    [t EXCEPT !.cols = IF c \in Columns(t) THEN @ ELSE Append(@, c),
              !.data = (c :> series) @@ @]

\* df.attrs[k] = v
SetAttr(t, k, v) == [t EXCEPT !.attrs = (k :> v) @@ @]

\* The mutant of Copy: no copy is taken, the same object is handed back.
CopyAliased(h, id, new) == [heap |-> h, id |-> id]

\* DataFrame.copy(): a new object with the same columns, values, index and
\* (through __finalize__) the same attrs.
Copy(h, id, new) == [heap |-> (new :> h[id]) @@ h, id |-> new]

\* What stays referenced after a call: the facade's table and the returned one.
Live(h, keep) == [i \in (DOMAIN h) \cap keep |-> h[i]]

------------------------------------------------------------------------------
(* Outcomes of a call.                                                     *)

NoCall == [op |-> "none"]
NoRet == [kind |-> "none"]

Returned(id) == [kind |-> "table", id |-> id]

\* raise exc(msg % args)
Raised(exc, msg, args) == [kind |-> "error", exc |-> exc, msg |-> msg, args |-> args]

NoIO == [opened |-> <<>>, evals |-> 0, resolved |-> <<>>]

------------------------------------------------------------------------------
(* validate: the pandera collaborator.  A schema object is a dict          *)
(* column -> dtype; a DataFrameModel class carries the same as its fields. *)

SchemaObject(columns) == [kind |-> "DataFrameSchema", columns |-> columns]
SchemaModel(fields) == [kind |-> "DataFrameModel", fields |-> fields]

\* DataFrameModel.to_schema()
ToSchema(m) == SchemaObject(m.fields)

\* str(schema)
StrSchema(s) == <<"<Schema DataFrameSchema(columns=", s.columns, ")>">>

\* The checks schema.validate runs: every schema column is present with the
\* schema's dtype and (nullable=False) holds no missing value.
Conforms(t, s) ==
    \A i \in 1..Len(s.columns) :
        LET c == s.columns[i][1] IN
        /\ c \in Columns(t)
        /\ t.data[c].dtype = s.columns[i][2]
        /\ NaN \notin Range(t.data[c].vals)

\* schema.validate(check_obj, lazy=False), inplace=False: raises SchemaError
\* at the first failed check, otherwise hands back a copy of check_obj.
SchemaValidate(h, id, s, new) ==
    IF Conforms(h[id], s)
    THEN [ok |-> TRUE, heap |-> Copy(h, id, new).heap, id |-> Copy(h, id, new).id]
    ELSE [ok |-> FALSE, heap |-> h, id |-> id]

\* The mutant of ValidateResult: the provenance is stamped on the facade's
\* table before the schema is checked.
ValidateResultStampFirst(h, id, schema, new) ==
    LET s == IF schema.kind = "DataFrameModel" THEN ToSchema(schema) ELSE schema
        h1 == [h EXCEPT ![id] = SetAttr(SetAttr(@, "enrich_validated", TRUE),
                                        "enrich_schema", StrSchema(s))]
        v == SchemaValidate(h1, id, s, new)
    IN  IF v.ok THEN [heap |-> v.heap, ret |-> Returned(v.id), warns |-> <<>>, io |-> NoIO]
        ELSE [heap |-> h1, ret |-> Raised("SchemaError", "schema", <<>>),
              warns |-> <<>>, io |-> NoIO]

\* EnrichAccessor.validate
ValidateResult(h, id, schema, new) ==
    LET s == IF schema.kind = "DataFrameModel" THEN ToSchema(schema) ELSE schema
        v == SchemaValidate(h, id, s, new)
    IN  IF ~v.ok
        THEN [heap |-> h, ret |-> Raised("SchemaError", "schema", <<>>),
              warns |-> <<>>, io |-> NoIO]
        ELSE [heap |-> [v.heap EXCEPT ![v.id] =
                           SetAttr(SetAttr(@, "enrich_validated", TRUE),
                                   "enrich_schema", StrSchema(s))],
              ret |-> Returned(v.id),
              warns |-> <<>>,
              io |-> NoIO]

------------------------------------------------------------------------------
(* derive: the specification text, the file system and yaml.safe_load.     *)
(* A text is the sequence of its lines.  A line is an entry  key: "expr",  *)
(* a plain scalar word, or a malformed token the YAML scanner rejects.     *)
(* An expression is the token sequence  <<operand, operator, operand>>.    *)

KV(k, e) == [tag |-> "kv", key |-> k, value |-> e]
Word(w) == [tag |-> "scalar", word |-> w]
Junk == [tag |-> "bad"]

RECURSIVE DictPut(_, _, _)
\* d[k] = v on a dict: an existing key keeps its place and takes the new value
DictPut(d, k, v) ==
    IF d = <<>> THEN << <<k, v>> >>
    ELSE IF Head(d)[1] = k THEN << <<k, v>> >> \o Tail(d)
         ELSE <<Head(d)>> \o DictPut(Tail(d), k, v)

RECURSIVE MappingOf(_, _)
MappingOf(lines, d) ==
    IF lines = <<>> THEN d
    ELSE MappingOf(Tail(lines), DictPut(d, Head(lines).key, Head(lines).value))

\* yaml.safe_load: YAMLError on text the scanner or parser rejects; None for
\* an empty document; a str for a plain scalar; a dict for a block mapping.
SafeLoad(text) ==
    LET tags == {text[i].tag : i \in 1..Len(text)} IN
    IF "bad" \in tags \/ tags = {"kv", "scalar"} THEN [tag |-> "YAMLError"]
    ELSE IF text = <<>> THEN [tag |-> "NoneType"]
    ELSE IF tags = {"scalar"} THEN [tag |-> "str"]
    ELSE [tag |-> "dict", items |-> MappingOf(text, <<>>)]

\* The file system derive runs against: path text -> file.
RulesPath == <<Word("rules.yaml")>>
BrokenPath == <<Word("broken.yaml")>>
LockedPath == <<Word("locked.yaml")>>

Files ==
    (RulesPath :> [readable |-> TRUE, content |-> <<KV("c", <<"a", "+", "b">>)>>])
    @@ (BrokenPath :> [readable |-> TRUE, content |-> <<KV("c", <<"a", "+", "b">>), Junk>>])
    @@ (LockedPath :> [readable |-> FALSE, content |-> <<KV("c", <<"a", "+", "b">>)>>])

\* with open(spec, 'r') as f: ... f.read(); FileNotFoundError / IOError otherwise
OpenRead(path) ==
    IF path \in DOMAIN Files /\ Files[path].readable
    THEN [ok |-> TRUE, content |-> Files[path].content]
    ELSE [ok |-> FALSE]

------------------------------------------------------------------------------
(* derive: DataFrame.eval over the columns of the table.                   *)

Literals == {"2"}
LitVal == ("2" :> 2)

Names(e) == {e[1], e[3]} \ Literals

Arith(op, x, y) ==
    IF x = NaN \/ y = NaN THEN NaN
    ELSE IF op = "+" THEN x + y ELSE x * y

Operand(t, x) ==
    IF x \in Literals
    THEN [dtype |-> "int64", vals |-> [i \in 1..Len(t.index) |-> LitVal[x]]]
    ELSE t.data[x]

\* df.eval(expression): UndefinedVariableError for a name that is no column
Eval(t, e) ==
    IF Names(e) \ Columns(t) # {} THEN [ok |-> FALSE]
    ELSE LET l == Operand(t, e[1])
             r == Operand(t, e[3])
         IN  [ok |-> TRUE,
              series |-> [dtype |-> IF l.dtype = "int64" /\ r.dtype = "int64"
                                    THEN "int64" ELSE "float64",
                          vals |-> [i \in 1..Len(t.index) |->
                                       Arith(e[2], l.vals[i], r.vals[i])]]]

\* The mutant of EvalTarget: the expression is evaluated on the facade's table.
EvalTargetOriginal(orig, df) == orig

\* df.eval(...) in the loop is called on the working copy df, not on self._obj
EvalTarget(orig, df) == df

RECURSIVE DeriveLoop(_, _, _, _)

\* The mutant of OnEvalFailure: the failed entry is skipped and the loop goes on.
OnEvalFailureSkip(orig, df, items, k) ==
    [DeriveLoop(orig, df, items, k + 1) EXCEPT !.evals = @ + 1]

\* except Exception as e: raise ValueError(...) for entry k
OnEvalFailure(orig, df, items, k) ==
    [ok |-> FALSE, df |-> df, at |-> k, evals |-> 1]

\* for col_name, expression in spec_dict.items(): df[col_name] = df.eval(expression)
\* from entry k on; evals counts the df.eval calls made
DeriveLoop(orig, df, items, k) ==
    IF k > Len(items) THEN [ok |-> TRUE, df |-> df, at |-> 0, evals |-> 0]
    ELSE LET e == Eval(EvalTarget(orig, df), items[k][2]) IN
         IF ~e.ok THEN OnEvalFailure(orig, df, items, k)
         ELSE [DeriveLoop(orig, SetItem(df, items[k][1], e.series), items, k + 1)
                  EXCEPT !.evals = @ + 1]

DictSpec(items) == [kind |-> "dict", items |-> items]
TextSpec(text) == [kind |-> "str", text |-> text]
OtherSpec == [kind |-> "int"]

\* The "Parse spec" block of derive: the value bound to spec_dict, or the
\* exception that leaves the block; opened lists the paths given to open().
ResolveSpec(spec) ==
    IF spec.kind = "str"
    THEN LET f == OpenRead(spec.text) IN
         IF f.ok
         THEN LET y == SafeLoad(f.content) IN
              IF y.tag = "YAMLError"
              THEN [ok |-> FALSE, opened |-> <<spec.text>>,
                    ret |-> Raised("YAMLError", "yaml", <<>>)]
              ELSE [ok |-> TRUE, opened |-> <<spec.text>>, value |-> y]
         ELSE LET y == SafeLoad(spec.text) IN
              IF y.tag = "YAMLError"
              THEN [ok |-> FALSE, opened |-> <<spec.text>>,
                    ret |-> Raised("ValueError", "Invalid YAML specification", <<spec.text>>)]
              ELSE [ok |-> TRUE, opened |-> <<spec.text>>, value |-> y]
    ELSE IF spec.kind = "dict"
    THEN [ok |-> TRUE, opened |-> <<>>, value |-> [tag |-> "dict", items |-> spec.items]]
    ELSE [ok |-> FALSE, opened |-> <<>>,
          ret |-> Raised("TypeError", "spec must be str or dict", <<spec.kind>>)]

\* EnrichAccessor.derive
DeriveResult(h, id, spec, new) ==
    LET c == Copy(h, id, new)
        r == ResolveSpec(spec)
    IN  IF ~r.ok
        THEN [heap |-> c.heap, ret |-> r.ret, warns |-> <<>>,
              io |-> [opened |-> r.opened, evals |-> 0, resolved |-> <<>>]]
        ELSE IF r.value.tag # "dict"
        THEN \* spec_dict.items() on a value that is no dict
             [heap |-> c.heap,
              ret |-> Raised("AttributeError", "object has no attribute 'items'",
                             <<r.value.tag>>),
              warns |-> <<>>,
              io |-> [opened |-> r.opened, evals |-> 0, resolved |-> <<>>]]
        ELSE LET items == r.value.items
                 d == DeriveLoop(h[id], c.heap[c.id], items, 1)
             IN  IF ~d.ok
                 THEN [heap |-> [c.heap EXCEPT ![c.id] = d.df],
                       ret |-> Raised("ValueError", "Failed to derive column",
                                      <<items[d.at][1], items[d.at][2]>>),
                       warns |-> <<>>,
                       io |-> [opened |-> r.opened, evals |-> d.evals, resolved |-> <<>>]]
                 ELSE [heap |-> [c.heap EXCEPT ![c.id] =
                                    SetAttr(SetAttr(d.df, "enrich_derived", TRUE),
                                            "enrich_derivations", items)],
                       ret |-> Returned(c.id),
                       warns |-> <<>>,
                       io |-> [opened |-> r.opened, evals |-> d.evals, resolved |-> <<>>]]

------------------------------------------------------------------------------
(* cast: Series.astype.                                                    *)

\* series.astype(dtype): a missing value cannot become an integer
\* (IntCastingNaNError, a ValueError); everything else converts.
Astype(series, dtype) ==
    IF dtype = "int64" /\ NaN \in Range(series.vals)
    THEN [ok |-> FALSE]
    ELSE [ok |-> TRUE, series |-> [dtype |-> dtype, vals |-> series.vals]]

RECURSIVE CastLoop(_, _, _)
\* for col, dtype in dtype_spec.items(): if col in df.columns: df[col] = df[col].astype(dtype)
CastLoop(df, items, k) ==
    IF k > Len(items) THEN [ok |-> TRUE, df |-> df]
    ELSE IF items[k][1] \notin Columns(df) THEN CastLoop(df, items, k + 1)
    ELSE LET a == Astype(df.data[items[k][1]], items[k][2]) IN
         IF ~a.ok THEN [ok |-> FALSE, df |-> df, at |-> k]
         ELSE CastLoop(SetItem(df, items[k][1], a.series), items, k + 1)

\* The mutant of CastWarnings: one warning for each absent column.
CastWarningsEach(df, items) ==
    LET missing_cols == Filter(Keys(items), Range(Keys(items)) \ Columns(df)) IN
    [i \in 1..Len(missing_cols) |->
        [msg |-> "Columns not found in DataFrame", missing |-> <<missing_cols[i]>>,
         available |-> df.cols]]

\* missing_cols = [...]; if missing_cols: warnings.warn(...)
CastWarnings(df, items) ==
    LET missing_cols == Filter(Keys(items), Range(Keys(items)) \ Columns(df)) IN
    IF missing_cols # <<>>
    THEN <<[msg |-> "Columns not found in DataFrame", missing |-> missing_cols,
            available |-> df.cols]>>
    ELSE <<>>

\* EnrichAccessor.cast
CastResult(h, id, dtype_spec, new) ==
    LET c == Copy(h, id, new)
        w == CastWarnings(c.heap[c.id], dtype_spec)
        l == CastLoop(c.heap[c.id], dtype_spec, 1)
    IN  IF ~l.ok
        THEN [heap |-> [c.heap EXCEPT ![c.id] = l.df],
              ret |-> Raised("ValueError", "Cannot convert non-finite values to integer",
                             <<dtype_spec[l.at][1]>>),
              warns |-> w, io |-> NoIO]
        ELSE [heap |-> [c.heap EXCEPT ![c.id] =
                           SetAttr(SetAttr(l.df, "enrich_cast", TRUE),
                                   "enrich_dtypes", dtype_spec)],
              ret |-> Returned(c.id),
              warns |-> w, io |-> NoIO]

------------------------------------------------------------------------------
(* lookup: the left join on the row index.                                 *)

TableSource(t) == [kind |-> "DataFrame", table |-> t]
StringSource(name) == [kind |-> "str", name |-> name]
NoneSource == [kind |-> "NoneType"]

NoResolver == [kind |-> "None"]
CustomResolver == [kind |-> "function", name |-> "custom_resolver"]
CopyingResolver == [kind |-> "function", name |-> "copying_resolver"]

\* if isinstance(dst, str): dst = [dst]
DstList(dst) == IF dst.kind = "str" THEN <<dst.name>> ELSE dst.names

\* the position of row label key in an index, 0 when it is not there
RECURSIVE Position(_, _, _)
Position(index, key, i) ==
    IF i > Len(index) THEN 0
    ELSE IF index[i] = key THEN i ELSE Position(index, key, i + 1)

\* One pulled column of the join: the source value of the row with the same
\* label, NaN where the source has no such row (an int64 column that takes a
\* NaN becomes float64).
Pulled(left, right, c) ==
    LET pos == [i \in 1..Len(left.index) |-> Position(right.index, left.index[i], 1)]
        unmatched == \E i \in 1..Len(left.index) : pos[i] = 0
    IN  [dtype |-> IF unmatched THEN "float64" ELSE right.data[c].dtype,
         vals |-> [i \in 1..Len(left.index) |->
                      IF pos[i] = 0 THEN NaN ELSE right.data[c].vals[pos[i]]]]

\* suffixes=('', '_lookup'): a pulled column whose label the left table
\* already has takes the suffix, the left column keeps its label.
Suffixed(left, c) == IF c \in Columns(left) THEN c \o "_lookup" ELSE c

RECURSIVE MergeLoop(_, _, _, _, _)
MergeLoop(result, left, right, names, k) ==
    IF k > Len(names) THEN result
    ELSE MergeLoop(SetItem(result, Suffixed(left, names[k]), Pulled(left, right, names[k])),
                   left, right, names, k + 1)

\* df.merge(src[dst], left_index=True, right_index=True, how='left',
\*          suffixes=('', '_lookup')): a new table with the left rows and
\* columns followed by the pulled columns; merge's __finalize__ carries no
\* attrs over when the two sides' attrs differ, and src[dst] has none.
Merge(left, right, names) ==
    MergeLoop([left EXCEPT !.attrs = NoAttrs], left, right, names, 1)

\* result[dst].isnull().sum().sum()
MissingCount(result, names) ==
    SumSeq([k \in 1..Len(names) |->
               Cardinality({i \in 1..Len(result.index) :
                               result.data[names[k]].vals[i] = NaN})])

\* The mutant of SourceMissingCols: the names are looked for in the calling table.
SourceMissingColsLeft(df, src, names) == Filter(names, Range(names) \ Columns(df))

\* missing_cols = [col for col in dst if col not in src.columns]
SourceMissingCols(df, src, names) == Filter(names, Range(names) \ Columns(src))

\* The mutant of StringSourceError: a string is taken for an unsupported type.
StringSourceTypeError(src) == Raised("TypeError", "src must be str or DataFrame", <<src.kind>>)

\* raise NotImplementedError(f"String-based lookup sources ('{src}') ...")
StringSourceError(src) ==
    Raised("NotImplementedError", "String-based lookup sources require df-eval", <<src.name>>)

\* The resolver of the test suite: df[dst] = df["a"] * 10; return df
ResolverCall(h, id, src, dst) ==
    [heap |-> [h EXCEPT ![id] = SetItem(@, dst.name,
                  [dtype |-> @.data["a"].dtype,
                   vals |-> [i \in 1..Len(@.index) |-> Arith("*", @.data["a"].vals[i], 10)]])],
     id |-> id]

\* resolver(df, src, dst): the resolver of the test suite, which writes into
\* the table it is given and hands it back, or a resolver that leaves it
\* alone and hands back a table of its own (lambda df, src, dst: df.copy()).
\* log is the record of the call: what was passed and what came back.
ResolverApply(resolver, h, id, src, dst, new) ==
    LET r == IF resolver.name = "custom_resolver"
             THEN ResolverCall(h, id, src, dst)
             ELSE Copy(h, id, new)
    IN  [heap |-> r.heap, id |-> r.id,
         log |-> [df |-> id, given |-> h[id], src |-> src, dst |-> dst,
                  returned |-> r.id, result |-> r.heap[r.id]]]

\* The mutant of ResolverBranch: the resolver's table is stamped with the
\* lookup provenance like the joined one.
ResolverBranchStamped(h, id, src, dst, resolver, new) ==
    LET r == ResolverApply(resolver, h, id, src, dst, new) IN
    [heap |-> [r.heap EXCEPT ![r.id] = SetAttr(@, "enrich_lookup", TRUE)],
     ret |-> Returned(r.id), warns |-> <<>>,
     io |-> [NoIO EXCEPT !.resolved = <<r.log>>]]

\* if resolver is not None: df = resolver(df, src, dst); return df
\* (id is the copy df, new the next unused object id)
ResolverBranch(h, id, src, dst, resolver, new) ==
    LET r == ResolverApply(resolver, h, id, src, dst, new) IN
    [heap |-> r.heap, ret |-> Returned(r.id), warns |-> <<>>,
     io |-> [NoIO EXCEPT !.resolved = <<r.log>>]]

\* EnrichAccessor.lookup
LookupResult(h, id, src, dst, resolver, on_missing, new) ==
    LET c == Copy(h, id, new) IN
    IF resolver.kind # "None"
    THEN ResolverBranch(c.heap, c.id, src, dst, resolver, new + 1)
    ELSE IF src.kind = "DataFrame"
    THEN LET names == DstList(dst)
             df == c.heap[c.id]
             missing_cols == SourceMissingCols(df, src.table, names)
         IN  IF missing_cols # <<>>
             THEN [heap |-> c.heap,
                   ret |-> Raised("ValueError", "Columns not found in source DataFrame",
                                  <<missing_cols, src.table.cols>>),
                   warns |-> <<>>, io |-> NoIO]
             ELSE IF Range(names) \ Columns(src.table) # {}
             THEN \* src[dst] on a label the source does not have
                  [heap |-> c.heap, ret |-> Raised("KeyError", "not in index", <<names>>),
                   warns |-> <<>>, io |-> NoIO]
             ELSE LET result == Merge(df, src.table, names)
                      missing_count == MissingCount(result, names)
                      stamped == SetAttr(result, "enrich_lookup", TRUE)
                  IN  IF missing_count > 0 /\ on_missing = "raise"
                      THEN [heap |-> c.heap,
                            ret |-> Raised("ValueError", "Lookup failed: missing values",
                                           <<missing_count, names>>),
                            warns |-> <<>>, io |-> NoIO]
                      ELSE [heap |-> ((new + 1) :> stamped) @@ c.heap,
                            ret |-> Returned(new + 1),
                            warns |-> IF missing_count > 0 /\ on_missing = "warn"
                                      THEN <<[msg |-> "Lookup resulted in missing values",
                                              count |-> missing_count, names |-> names]>>
                                      ELSE <<>>,
                            io |-> NoIO]
    ELSE IF src.kind = "str"
    THEN [heap |-> c.heap, ret |-> StringSourceError(src), warns |-> <<>>, io |-> NoIO]
    ELSE [heap |-> c.heap,
          ret |-> Raised("TypeError", "src must be str or DataFrame", <<src.kind>>),
          warns |-> <<>>, io |-> NoIO]

------------------------------------------------------------------------------
(* profile: the ydata_profiling collaborator and the fallback statistics.  *)

Value(v) == [kind |-> "value", value |-> v]

\* The non-missing values of a column.
Present(series) == {series.vals[i] : i \in {j \in 1..Len(series.vals) : series.vals[j] # NaN}}

\* One column of DataFrame.describe(): the number of non-missing values and
\* their least and greatest (NaN without any).  The mean, the deviation and
\* the quartiles of the real describe() are left out.
Describe(series) ==
    [count |-> Cardinality({i \in 1..Len(series.vals) : series.vals[i] # NaN}),
     min |-> IF Present(series) = {} THEN NaN
             ELSE CHOOSE v \in Present(series) : \A w \in Present(series) : v <= w,
     max |-> IF Present(series) = {} THEN NaN
             ELSE CHOOSE v \in Present(series) : \A w \in Present(series) : v >= w]

\* EnrichAccessor._basic_profile: the mapping is built key by key, and
\* DataFrame.describe() refuses a table without columns
\* ("Cannot describe a DataFrame without columns").
BasicProfile(t) ==
    IF t.cols = <<>>
    THEN Raised("ValueError", "Cannot describe a DataFrame without columns", <<>>)
    ELSE Value([shape |-> <<Len(t.index), Len(t.cols)>>,
                dtypes |-> [c \in Columns(t) |-> t.data[c].dtype],
                missing |-> [c \in Columns(t) |->
                               Cardinality({i \in 1..Len(t.index) : t.data[c].vals[i] = NaN})],
                describe |-> [c \in Columns(t) |-> Describe(t.data[c])]])

\* ProfileReport(self._obj, minimal=True, lazy=True, **kwargs) when lazy,
\* ProfileReport(self._obj, **kwargs) otherwise: a keyword given twice is a
\* TypeError of the call itself.
ProfileReport(id, lazy, kwargs) ==
    IF lazy /\ Range(Keys(kwargs)) \cap {"minimal", "lazy"} # {}
    THEN Raised("TypeError", "got multiple values for keyword argument", <<>>)
    ELSE Value([report |-> "ProfileReport", df |-> id,
                options |-> IF lazy
                            THEN << <<"minimal", TRUE>>, <<"lazy", TRUE>> >> \o kwargs
                            ELSE kwargs])

\* EnrichAccessor.profile; installed: whether ydata_profiling can be imported
ProfileResult(h, id, engine, lazy, kwargs, installed) ==
    IF engine = "ydata"
    THEN IF installed
         THEN [heap |-> h, ret |-> ProfileReport(id, lazy, kwargs),
               warns |-> <<>>, io |-> NoIO]
         ELSE [heap |-> h, ret |-> BasicProfile(h[id]),
               warns |-> <<[msg |-> "ydata-profiling not installed",
                            category |-> "ImportWarning"]>>,
               io |-> NoIO]
    ELSE [heap |-> h, ret |-> Raised("ValueError", "Unsupported profiling engine", <<engine>>),
          warns |-> <<>>, io |-> NoIO]

------------------------------------------------------------------------------
(* config and the facade's configuration store.                            *)

\* self._config: Dict[str, Any] = {}
EmptyConfig == [k \in {} |-> ""]

Facade(id) == [kind |-> "facade", id |-> id]

\* The mutant of Update: a key that is already set keeps its value
\* (setdefault per key).
UpdateKeepingEarlier(cfg, kwargs) ==
    [k \in DOMAIN cfg \cup DOMAIN kwargs |-> IF k \in DOMAIN cfg THEN cfg[k] ELSE kwargs[k]]

\* dict.update(kwargs): every given key takes the given value, the other
\* keys stay.
Update(cfg, kwargs) ==
    [k \in DOMAIN cfg \cup DOMAIN kwargs |-> IF k \in DOMAIN kwargs THEN kwargs[k] ELSE cfg[k]]

\* EnrichAccessor.config
ConfigResult(id, cfg, kwargs) == [config |-> Update(cfg, kwargs), ret |-> Facade(id)]

\* table.enrich: pandas keeps the accessor it constructed on the table object
\* it constructed it for; on another table object a new EnrichAccessor is
\* constructed, and __init__ gives it an empty store.
Accessor(id, cfg, of, table) ==
    IF table = of THEN [id |-> id, config |-> cfg]
    ELSE [id |-> id + 1, config |-> EmptyConfig]

------------------------------------------------------------------------------
(* The tables and arguments the calls are made with.                       *)

Table(cols, data, index) ==
    [cols |-> cols, data |-> data, index |-> index, attrs |-> NoAttrs]

Int64(vals) == [dtype |-> "int64", vals |-> vals]
Float64(vals) == [dtype |-> "float64", vals |-> vals]

\* pd.DataFrame({"a": [1, 2], "b": [3, 4]})
Plain == Table(<<"a", "b">>, ("a" :> Int64(<<1, 2>>)) @@ ("b" :> Int64(<<3, 4>>)), <<0, 1>>)

\* pd.DataFrame({"a": [1, 2], "price": [5.0, nan]}): a float price column as
\* in the usage example, with a missing value
Priced ==
    Table(<<"a", "price">>, ("a" :> Int64(<<1, 2>>)) @@ ("price" :> Float64(<<5, NaN>>)),
          <<0, 1>>)

\* pd.DataFrame(index=[0, 1]): rows without any column
Bare == Table(<<>>, [c \in {} |-> Int64(<<>>)], <<0, 1>>)

InitTables == {Plain, Priced, Bare}

\* Lookup sources: the same row labels as the calling tables, and shifted ones.
Prices ==
    Table(<<"price", "qty">>,
          ("price" :> Int64(<<10, 20>>)) @@ ("qty" :> Int64(<<1, 2>>)), <<0, 1>>)

Shifted ==
    Table(<<"price", "qty">>,
          ("price" :> Int64(<<30, 40>>)) @@ ("qty" :> Int64(<<1, 2>>)), <<1, 2>>)

Sources ==
    {TableSource(Prices), TableSource(Shifted), StringSource("registry://data"), NoneSource}

Name(n) == [kind |-> "str", name |-> n]
NameList(ns) == [kind |-> "list", names |-> ns]

Dsts == {Name("price"), NameList(<<"price", "qty">>), Name("cost"),
         NameList(<<"price", "cost">>)}

Policies == {"warn", "raise", "ignore"}

Resolvers == {NoResolver, CustomResolver, CopyingResolver}

Schemas ==
    {SchemaObject(<< <<"a", "int64">> >>),
     SchemaModel(<< <<"a", "int64">> >>),
     SchemaObject(<< <<"a", "int64">>, <<"price", "float64">> >>),
     SchemaModel(<< <<"a", "float64">> >>),
     SchemaObject(<< <<"c", "int64">> >>)}

Sum == <<"a", "+", "b">>

Mappings ==
    {<< <<"c", Sum>> >>,
     << <<"c", Sum>>, <<"d", <<"c", "*", "2">>>> >>,
     << <<"d", <<"c", "*", "2">>>>, <<"c", Sum>> >>,
     << <<"a", <<"a", "+", "a">>>>, <<"e", <<"a", "*", "price">>>> >>}

Texts ==
    {<<KV("c", Sum), KV("d", <<"c", "*", "2">>)>>,
     <<KV("c", <<"a", "*", "2">>), KV("c", Sum)>>,
     <<Word("a"), Word("b")>>,
     <<>>,
     <<KV("c", Sum), Junk>>,
     <<Word("c"), KV("d", Sum)>>,
     RulesPath, BrokenPath, LockedPath}

Specs == {DictSpec(m) : m \in Mappings} \cup {TextSpec(t) : t \in Texts} \cup {OtherSpec}

DtypeSpecs ==
    {<< <<"a", "float64">> >>,
     << <<"a", "int64">>, <<"missing", "float64">> >>,
     << <<"x", "int64">>, <<"price", "int64">>, <<"a", "float64">>, <<"y", "float64">> >>,
     << <<"c", "int64">>, <<"b", "float64">> >>}

Engines == {"ydata", "bogus"}

ProfileOptions == {<<>>, << <<"title", "report">> >>, << <<"minimal", FALSE>> >>}

\* df.enrich.config(registry_url="https://api.example.com") and two more
ConfigOptions ==
    {[registry_url |-> "https://api.example.com"],
     [registry_url |-> "https://mirror.example.com"],
     [secret |-> "token"]}

\* merge() is left alone with a pulled label whose suffixed form the calling
\* table already holds (it would build two columns with one label).
NoLabelClash(t, dst) ==
    \A c \in Range(DstList(dst)) : c \in Columns(t) => (c \o "_lookup") \notin Columns(t)

------------------------------------------------------------------------------
(* The state machine: one call on the facade of the current table, then    *)
(* .enrich on the returned table (a new facade, EnrichAccessor.__init__).  *)

Init ==
    /\ obj = 1
    /\ \E t \in InitTables : heap = (1 :> t)
    /\ call = NoCall
    /\ ret = NoRet
    /\ warns = <<>>
    /\ io = NoIO
    /\ hist = <<>>
    /\ nextId = 2
    /\ self = 1
    /\ config = EmptyConfig
    /\ nconfig = 0

\* The facade is at hand (df.enrich, or the facade config returned) and the
\* chain may grow by one more call.
Ready == ret.kind \in {"none", "facade"} /\ Len(hist) + nconfig < MaxCalls

\* The call is made: r is what the method did.
Do(c, r) ==
    /\ call' = c
    /\ ret' = r.ret
    /\ warns' = r.warns
    /\ io' = r.io
    /\ heap' = Live(r.heap, {obj} \cup (IF r.ret.kind = "table" THEN {r.ret.id} ELSE {}))
    /\ nextId' = nextId + 2
    /\ UNCHANGED <<obj, hist, self, config, nconfig>>

Validate ==
    /\ Ready
    /\ \E schema \in Schemas :
          Do([op |-> "validate", schema |-> schema],
             ValidateResult(heap, obj, schema, nextId))

Derive ==
    /\ Ready
    /\ \E spec \in Specs :
          Do([op |-> "derive", spec |-> spec], DeriveResult(heap, obj, spec, nextId))

Cast ==
    /\ Ready
    /\ \E dtype_spec \in DtypeSpecs :
          Do([op |-> "cast", dtype_spec |-> dtype_spec],
             CastResult(heap, obj, dtype_spec, nextId))

Lookup ==
    /\ Ready
    /\ \E src \in Sources, dst \in Dsts, resolver \in Resolvers, on_missing \in Policies :
          /\ NoLabelClash(heap[obj], dst)
          /\ resolver = CustomResolver => (dst.kind = "str" /\ "a" \in Columns(heap[obj]))
          /\ Do([op |-> "lookup", src |-> src, dst |-> dst, resolver |-> resolver,
                 on_missing |-> on_missing],
                LookupResult(heap, obj, src, dst, resolver, on_missing, nextId))

\* installed is the environment's: whether ydata_profiling can be imported.
Profile ==
    /\ Ready
    /\ \E engine \in Engines, lazy \in BOOLEAN, kwargs \in ProfileOptions,
          installed \in BOOLEAN :
          Do([op |-> "profile", engine |-> engine, lazy |-> lazy, kwargs |-> kwargs,
              installed |-> installed],
             ProfileResult(heap, obj, engine, lazy, kwargs, installed))

Config ==
    /\ Ready
    /\ \E kwargs \in ConfigOptions :
          LET r == ConfigResult(self, config, kwargs) IN
          /\ call' = [op |-> "config", kwargs |-> kwargs]
          /\ ret' = r.ret
          /\ config' = r.config
          /\ warns' = <<>>
          /\ io' = NoIO
          /\ nconfig' = nconfig + 1
          /\ UNCHANGED <<heap, obj, hist, nextId, self>>

\* The name a call goes by in hist: a lookup handed to a resolver is kept apart.
OpName(c) ==
    IF c.op = "lookup" /\ c.resolver.kind # "None" THEN "lookup(resolver)" ELSE c.op

\* result.enrich: the accessor of the returned table
Access ==
    /\ ret.kind = "table"
    /\ obj' = ret.id
    /\ self' = Accessor(self, config, obj, ret.id).id
    /\ config' = Accessor(self, config, obj, ret.id).config
    /\ heap' = Live(heap, {ret.id})
    /\ hist' = Append(hist, OpName(call))
    /\ call' = NoCall
    /\ ret' = NoRet
    /\ warns' = <<>>
    /\ io' = NoIO
    /\ UNCHANGED <<nextId, nconfig>>

Next == Validate \/ Derive \/ Cast \/ Lookup \/ Profile \/ Config \/ Access

Spec == Init /\ [][Next]_vars

------------------------------------------------------------------------------
(* Vocabulary of the properties.                                           *)

\* No call is under way: the facade was just taken from its table, or
\* handed back by config.
Idle == call.op \in {"none", "config"}

\* The step is a call of op on the facade.
Calls(op) == Idle /\ call'.op = op

\* The table the facade is bound to, and the table the call returned.
Caller == heap[obj]
Result == heap[ret.id]

\* The call was a derive whose specification resolved to a mapping, and the
\* mapping it resolved to.
DeriveOfMapping ==
    /\ call.op = "derive"
    /\ ResolveSpec(call.spec).ok
    /\ ResolveSpec(call.spec).value.tag = "dict"

Mapping == ResolveSpec(call.spec).value.items

\* Entry k reads a name that is neither a column of t nor the name of an
\* entry before k.
Dangling(items, t, k) ==
    Names(items[k][2]) \ (Columns(t) \cup {items[j][1] : j \in 1..(k - 1)}) # {}

Least(S) == CHOOSE k \in S : \A j \in S : k <= j

\* The value entry k reads for operand x in row i: a literal, the column an
\* earlier entry of the call wrote (as the returned table holds it), or the
\* caller's column.
Reads(items, k, x, i) ==
    IF x \in Literals THEN LitVal[x]
    ELSE IF \E j \in 1..(k - 1) : items[j][1] = x THEN Result.data[x].vals[i]
    ELSE Caller.data[x].vals[i]

------------------------------------------------------------------------------
\* C1: derive applies the entries of the resolved mapping in mapping order,
\* each against the table as amended by the earlier entries.  When every
\* entry reads only original columns and columns named by earlier entries,
\* derive returns a table in which column k holds its expression evaluated
\* over those values; when some entry reads a column that only a later entry
\* (or none) creates, derive fails with the derivation error.
C1_DeriveInMappingOrder ==
    DeriveOfMapping =>
        LET items == Mapping IN
        IF \A k \in 1..Len(items) : ~Dangling(items, Caller, k)
        THEN /\ ret.kind = "table"
             /\ \A k \in 1..Len(items) :
                   LET e == items[k][2] IN
                   /\ items[k][1] \in Columns(Result)
                   /\ \A i \in 1..Len(Caller.index) :
                         Result.data[items[k][1]].vals[i] =
                            Arith(e[2], Reads(items, k, e[1], i), Reads(items, k, e[3], i))
        ELSE /\ ret.kind = "error"
             /\ ret.msg = "Failed to derive column"

\* C1 witness: a two-entry mapping whose second entry reads the column the
\* first one created, derived on a = [1, 2], b = [3, 4].
C1_Witness ==
    /\ call.op = "derive"
    /\ call.spec = DictSpec(<< <<"c", Sum>>, <<"d", <<"c", "*", "2">>>> >>)
    /\ ret.kind = "table"
    /\ Result.data["c"].vals = <<4, 6>>
    /\ Result.data["d"].vals = <<8, 12>>

------------------------------------------------------------------------------
\* The provenance keys each operation writes; the first is its flag.
Flag(op) ==
    CASE op = "validate" -> "enrich_validated"
      [] op = "derive" -> "enrich_derived"
      [] op = "cast" -> "enrich_cast"
      [] op = "lookup" -> "enrich_lookup"

OwnKeys(op) ==
    CASE op = "validate" -> {"enrich_validated", "enrich_schema"}
      [] op = "derive" -> {"enrich_derived", "enrich_derivations"}
      [] op = "cast" -> {"enrich_cast", "enrich_dtypes"}
      [] op = "lookup" -> {"enrich_lookup"}

\* A table was returned at the end of a chain of validate, derive, cast and
\* lookup (table source, no resolver) calls.
ChainReturned ==
    /\ ret.kind = "table"
    /\ OpName(call) # "lookup(resolver)"
    /\ "lookup(resolver)" \notin Range(hist)

\* C2: chained calls accumulate provenance.  The table returned at the end
\* of a chain carries the flag of every operation of the chain set to true,
\* and a call keeps every provenance key of the caller's table that belongs
\* to another operation, with its value.
C2_ProvenanceAccumulates ==
    ChainReturned =>
        /\ \A op \in Range(hist) \cup {call.op} :
              /\ Flag(op) \in DOMAIN Result.attrs
              /\ Result.attrs[Flag(op)] = TRUE
        /\ \A key \in (DOMAIN Caller.attrs) \ OwnKeys(call.op) :
              /\ key \in DOMAIN Result.attrs
              /\ Result.attrs[key] = Caller.attrs[key]

\* The same statement for chains without lookup: validate, derive and cast
\* carry the caller's attrs over (copy) and add their own keys.
ProvenanceAccumulatesWithoutLookup ==
    (ChainReturned /\ call.op # "lookup" /\ "lookup" \notin Range(hist)) =>
        /\ \A op \in Range(hist) \cup {call.op} :
              /\ Flag(op) \in DOMAIN Result.attrs
              /\ Result.attrs[Flag(op)] = TRUE
        /\ \A key \in (DOMAIN Caller.attrs) \ OwnKeys(call.op) :
              /\ key \in DOMAIN Result.attrs
              /\ Result.attrs[key] = Caller.attrs[key]

\* validate(...).derive(...).cast(...) of the test suite is among the chains.
ChainOfThreeReached ==
    /\ hist = <<"validate", "derive">>
    /\ call.op = "cast"
    /\ ret.kind = "table"
    /\ DOMAIN Result.attrs = OwnKeys("validate") \cup OwnKeys("derive") \cup OwnKeys("cast")

------------------------------------------------------------------------------
\* C3: a call of validate, derive, cast or lookup leaves the facade's table
\* as it was (columns, values, dtypes, index, attrs), whether it returns or
\* raises, and a returned table is another object than the facade's table.
C3_CallerUntouched ==
    [][(Idle /\ call'.op # "none") =>
          /\ obj' = obj
          /\ heap'[obj] = heap[obj]
          /\ ret'.kind = "table" => ret'.id # obj]_vars

\* C3 witness: a cast wrote float64 into column a of the returned table while
\* the facade's table still holds it as int64.
C3_Witness ==
    /\ call.op = "cast"
    /\ ret.kind = "table"
    /\ ret.id # obj
    /\ "a" \in Columns(Caller)
    /\ Result.data["a"].dtype = "float64"
    /\ Caller.data["a"].dtype = "int64"

------------------------------------------------------------------------------
\* The schema object a validate call checks against.
SchemaOf(c) ==
    IF c.schema.kind = "DataFrameModel" THEN SchemaObject(c.schema.fields) ELSE c.schema

\* C4: validate on a conforming table returns a table with validated=true,
\* the schema's text attached and the caller's data; on a non-conforming
\* table it raises the schema library's error, returns nothing and stamps no
\* provenance on any table.  A schema-definition type counts as the schema
\* object it converts to.
C4_Validate ==
    [][Calls("validate") =>
          LET s == SchemaOf(call') IN
          IF Conforms(heap[obj], s)
          THEN /\ ret'.kind = "table"
               /\ heap'[ret'.id].attrs["enrich_validated"] = TRUE
               /\ heap'[ret'.id].attrs["enrich_schema"] = StrSchema(s)
               /\ heap'[ret'.id].cols = heap[obj].cols
               /\ heap'[ret'.id].data = heap[obj].data
               /\ heap'[ret'.id].index = heap[obj].index
          ELSE /\ ret' = Raised("SchemaError", "schema", <<>>)
               /\ heap' = heap]_vars

\* C4 witness: a schema-definition type validated a table that conforms.
C4_Witness ==
    /\ call.op = "validate"
    /\ call.schema.kind = "DataFrameModel"
    /\ ret.kind = "table"
    /\ Result.attrs["enrich_validated"] = TRUE
    /\ Result.data = Caller.data

\* validate raised on a table that does not conform.
ValidateRaisedReached ==
    /\ call.op = "validate"
    /\ ret.kind = "error"

------------------------------------------------------------------------------
\* C5: when entry k of the mapping is the first whose evaluation fails,
\* derive raises the derivation error naming entry k's column and
\* expression, has evaluated exactly the entries up to k, returns no table
\* and leaves every table without new provenance.
C5_DeriveFailure ==
    [][(Calls("derive") /\ ResolveSpec(call'.spec).ok
            /\ ResolveSpec(call'.spec).value.tag = "dict") =>
          LET items == ResolveSpec(call'.spec).value.items
              failing == {k \in 1..Len(items) : Dangling(items, heap[obj], k)}
          IN  failing # {} =>
                 /\ ret' = Raised("ValueError", "Failed to derive column",
                                  <<items[Least(failing)][1], items[Least(failing)][2]>>)
                 /\ io'.evals = Least(failing)
                 /\ heap' = heap]_vars

\* C5 witness: the second entry of a mapping failed after the first was
\* evaluated.
C5_Witness ==
    /\ DeriveOfMapping
    /\ Len(Mapping) = 2
    /\ ret.kind = "error"
    /\ ret.args = <<Mapping[2][1], Mapping[2][2]>>
    /\ io.evals = 2

------------------------------------------------------------------------------
\* derive went on with this mapping: it returned a table stamped with it, or
\* failed on one of its entries.
WentOnWith(items) ==
    \/ ret.kind = "table" /\ Result.attrs["enrich_derivations"] = items
    \/ ret.kind = "error" /\ ret.msg = "Failed to derive column"

InvalidSpecification == ret.kind = "error" /\ ret.msg = "Invalid YAML specification"

\* C6: derive resolves a text specification by reading it as a file path
\* first and parsing the text itself only when the file is absent or
\* unreadable; a text that neither route resolves to a mapping fails with
\* the invalid-specification error; a specification that is neither text nor
\* mapping fails with the wrong-argument-type error; a direct mapping is used
\* as given and no file is opened.
C6_SpecResolution ==
    call.op = "derive" =>
        IF call.spec.kind = "str"
        THEN LET f == OpenRead(call.spec.text)
                 y == IF f.ok THEN SafeLoad(f.content) ELSE SafeLoad(call.spec.text)
             IN  /\ io.opened = <<call.spec.text>>
                 /\ IF y.tag = "dict" THEN WentOnWith(y.items) ELSE InvalidSpecification
        ELSE IF call.spec.kind = "dict"
        THEN io.opened = <<>> /\ WentOnWith(call.spec.items)
        ELSE io.opened = <<>> /\ ret.kind = "error" /\ ret.exc = "TypeError"

\* What of C6 the code does keep: the routes are tried in the stated order
\* and a mapping found by either is the one used; text the parser rejects
\* gives the invalid-specification error only when it is the text itself
\* (not the file's content), and text that parses to something else than a
\* mapping gives an AttributeError.
SpecResolutionAsCoded ==
    (call.op = "derive" /\ call.spec.kind = "str") =>
        LET f == OpenRead(call.spec.text)
            y == IF f.ok THEN SafeLoad(f.content) ELSE SafeLoad(call.spec.text)
        IN  /\ io.opened = <<call.spec.text>>
            /\ y.tag = "dict" => WentOnWith(y.items)
            /\ (y.tag = "YAMLError" /\ ~f.ok) => InvalidSpecification
            /\ (y.tag = "YAMLError" /\ f.ok) => (ret.kind = "error" /\ ret.exc = "YAMLError")
            /\ y.tag \in {"str", "NoneType"} =>
                  (ret.kind = "error" /\ ret.exc = "AttributeError")

------------------------------------------------------------------------------
\* The requested names a cast call did not find, in the order requested.
Absent(items, t) == Filter(Keys(items), Range(Keys(items)) \ Columns(t))

\* Every requested column the table has can take its target type.
Convertible(items, t) ==
    \A k \in 1..Len(items) :
        (items[k][1] \in Columns(t) /\ items[k][2] = "int64") =>
            NaN \notin Range(t.data[items[k][1]].vals)

OneWarningListing(names) == Len(warns) = 1 /\ warns[1].missing = names

\* cast returned the caller's table with the requested columns it has
\* converted, nothing else touched, and the requested mapping as provenance.
CastReturned(items) ==
    /\ ret.kind = "table"
    /\ Result.cols = Caller.cols
    /\ Result.index = Caller.index
    /\ \A k \in 1..Len(items) :
          items[k][1] \in Columns(Caller) =>
             /\ Result.data[items[k][1]].dtype = items[k][2]
             /\ Result.data[items[k][1]].vals = Caller.data[items[k][1]].vals
    /\ \A c \in Columns(Caller) \ Range(Keys(items)) : Result.data[c] = Caller.data[c]
    /\ Result.attrs["enrich_cast"] = TRUE
    /\ Result.attrs["enrich_dtypes"] = items

\* C7 as stated: a cast with absent requested columns emits exactly one
\* warning listing all of them, raises no error, converts every requested
\* column that is present, leaves the others alone, creates no column for an
\* absent name and stamps cast=true with the requested mapping.
C7_CastSkipsAbsent ==
    (call.op = "cast" /\ Absent(call.dtype_spec, Caller) # <<>>) =>
        /\ OneWarningListing(Absent(call.dtype_spec, Caller))
        /\ CastReturned(call.dtype_spec)

\* C7 as amended: the warning is as stated (one for all the absent names,
\* none without absent names); the cast returns as stated when every present
\* requested column can take its target type, and otherwise the conversion
\* error propagates after the warning and no table is returned.
C7_CastSkipsAbsentUnlessConversionFails ==
    call.op = "cast" =>
        /\ IF Absent(call.dtype_spec, Caller) # <<>>
           THEN OneWarningListing(Absent(call.dtype_spec, Caller))
           ELSE warns = <<>>
        /\ IF Convertible(call.dtype_spec, Caller)
           THEN CastReturned(call.dtype_spec)
           ELSE ret.kind = "error" /\ DOMAIN heap = {obj}

\* C7 witness: two of four requested columns are absent, and a present one
\* is converted from int64 to float64.
C7_Witness ==
    /\ call.op = "cast"
    /\ Absent(call.dtype_spec, Caller) = <<"x", "y">>
    /\ warns[1].missing = <<"x", "y">>
    /\ ret.kind = "table"
    /\ Caller.data["a"].dtype = "int64"
    /\ Result.data["a"].dtype = "float64"
    /\ Columns(Result) = Columns(Caller)

------------------------------------------------------------------------------
\* The call was a lookup on a table source, without resolver.
TableLookup ==
    /\ call.op = "lookup"
    /\ call.resolver.kind = "None"
    /\ call.src.kind = "DataFrame"

\* The number of values the join could not pull from the source into column
\* c: rows whose label the source lacks, or for which the source holds NaN.
Unpulled(c) ==
    Cardinality({i \in 1..Len(Caller.index) :
        LET p == Position(call.src.table.index, Caller.index[i], 1) IN
        p = 0 \/ call.src.table.data[c].vals[p] = NaN})

\* C8: a table-source lookup counts the missing values of the pulled
\* destination columns and applies the policy to the count: with a count
\* above zero, raise raises with the count and returns nothing, warn emits
\* one warning with the count and returns the joined table, ignore returns
\* it silently; with a count of zero nothing is raised or warned; every
\* returned table has lookup=true.
C8_LookupMissingPolicy ==
    (TableLookup /\ Range(DstList(call.dst)) \subseteq Columns(call.src.table)) =>
        LET names == DstList(call.dst)
            count == SumSeq([k \in 1..Len(names) |-> Unpulled(names[k])])
        IN  /\ (count > 0 /\ call.on_missing = "raise") =>
                  ret = Raised("ValueError", "Lookup failed: missing values", <<count, names>>)
            /\ (count > 0 /\ call.on_missing = "warn") =>
                  /\ ret.kind = "table"
                  /\ Len(warns) = 1
                  /\ warns[1].count = count
            /\ (count = 0 \/ call.on_missing = "ignore") =>
                  /\ ret.kind = "table"
                  /\ warns = <<>>
            /\ ret.kind = "table" => Result.attrs["enrich_lookup"] = TRUE

\* The same statement restricted to destination names the calling table does
\* not already have as columns.
LookupMissingPolicyWithoutCollision ==
    (TableLookup /\ Range(DstList(call.dst)) \cap Columns(Caller) = {}) =>
        C8_LookupMissingPolicy

------------------------------------------------------------------------------
\* C9: a table-source lookup without resolver, with a destination name the
\* source lacks, raises the error listing the lacking names and the source's
\* columns, under every policy, before any join: no table, no warning.
C9_LookupColumnMissing ==
    (TableLookup /\ ~(Range(DstList(call.dst)) \subseteq Columns(call.src.table))) =>
        /\ ret = Raised("ValueError", "Columns not found in source DataFrame",
                        <<Filter(DstList(call.dst),
                                 Range(DstList(call.dst)) \ Columns(call.src.table)),
                          call.src.table.cols>>)
        /\ warns = <<>>
        /\ DOMAIN heap = {obj}

\* C9 witness: of two requested names one is lacking in the source, and the
\* policy is ignore.
C9_Witness ==
    /\ TableLookup
    /\ call.dst = NameList(<<"price", "cost">>)
    /\ call.on_missing = "ignore"
    /\ ret.kind = "error"
    /\ ret.args[1] = <<"cost">>

------------------------------------------------------------------------------
\* C10 as stated: a lookup with a string source raises the not-implemented
\* error naming the identifier and returns no table, whatever the policy and
\* the destination; a source that is neither table nor string raises a type
\* error.
C10_StringSource ==
    call.op = "lookup" =>
        /\ call.src.kind = "str" =>
              /\ ret.kind = "error"
              /\ ret.exc = "NotImplementedError"
              /\ ret.args = <<call.src.name>>
              /\ DOMAIN heap = {obj}
        /\ call.src.kind \notin {"str", "DataFrame"} =>
              /\ ret.kind = "error"
              /\ ret.exc = "TypeError"

\* C10 as amended: the same, for calls that supply no resolver.
C10_StringSourceWithoutResolver ==
    (call.op = "lookup" /\ call.resolver.kind = "None") => C10_StringSource

\* C10 witness: a string source under the ignore policy with a list of
\* destinations.
C10_Witness ==
    /\ call.op = "lookup"
    /\ call.resolver.kind = "None"
    /\ call.src.kind = "str"
    /\ call.on_missing = "ignore"
    /\ call.dst.kind = "list"
    /\ ret.kind = "error"

------------------------------------------------------------------------------
\* C11: a lookup with a resolver delegates to it whatever the source and the
\* policy: the resolver is called exactly once, with a table that holds what
\* the facade's table holds, the source and the destination spec; the table
\* it hands back is returned as the resolver left it (no lookup provenance
\* added); nothing is raised or warned for the source's type, a join or
\* missing values; and the facade's table is as it was, also when the
\* resolver wrote into the table it was given.
C11_ResolverDelegation ==
    [][(Calls("lookup") /\ call'.resolver.kind # "None") =>
          /\ Len(io'.resolved) = 1
          /\ io'.resolved[1].given = heap[obj]
          /\ io'.resolved[1].df # obj
          /\ io'.resolved[1].src = call'.src
          /\ io'.resolved[1].dst = call'.dst
          /\ ret' = Returned(io'.resolved[1].returned)
          /\ heap'[ret'.id] = io'.resolved[1].result
          /\ warns' = <<>>
          /\ heap'[obj] = heap[obj]]_vars

\* C11 witness: under the raise policy and with a string source, the
\* resolver wrote column price into the table it was given; that table was
\* returned, and the facade's table has no such column.
C11_Witness ==
    /\ call.op = "lookup"
    /\ call.resolver = CustomResolver
    /\ call.src.kind = "str"
    /\ call.on_missing = "raise"
    /\ ret.kind = "table"
    /\ "price" \notin Columns(Caller)
    /\ Result.data["price"].vals = <<10, 20>>
    /\ DOMAIN Result.attrs = DOMAIN Caller.attrs

\* A lookup without resolver never calls one.
NoResolverNoCall ==
    (call.op = "lookup" /\ call.resolver.kind = "None") => io.resolved = <<>>

------------------------------------------------------------------------------
\* C12: profile with an engine other than "ydata" raises the
\* unsupported-engine error naming the engine, whatever the laziness flag and
\* the options and whether or not ydata_profiling can be imported; profile
\* with "ydata" and no ydata_profiling to import raises nothing and returns a
\* mapping with exactly the keys shape, dtypes, missing and describe, holding
\* the facade's table's row and column counts, dtypes, missing-value counts
\* and per-column statistics.
C12_Profile ==
    call.op = "profile" =>
        /\ call.engine # "ydata" =>
              ret = Raised("ValueError", "Unsupported profiling engine", <<call.engine>>)
        /\ (call.engine = "ydata" /\ ~call.installed) =>
              /\ ret.kind = "value"
              /\ DOMAIN ret.value = {"shape", "dtypes", "missing", "describe"}
              /\ ret.value.shape = <<Len(Caller.index), Len(Caller.cols)>>
              /\ DOMAIN ret.value.dtypes = Columns(Caller)
              /\ DOMAIN ret.value.describe = Columns(Caller)
              /\ \A c \in Columns(Caller) :
                    /\ ret.value.dtypes[c] = Caller.data[c].dtype
                    /\ ret.value.missing[c] + ret.value.describe[c].count = Len(Caller.index)
                    /\ (ret.value.missing[c] = 0) = (NaN \notin Range(Caller.data[c].vals))

\* What holds of profile: the first half of C12 as it stands, the second for
\* a table with at least one column.
ProfileOfTableWithColumns ==
    call.op = "profile" =>
        /\ call.engine # "ydata" =>
              ret = Raised("ValueError", "Unsupported profiling engine", <<call.engine>>)
        /\ (call.engine = "ydata" /\ ~call.installed /\ Caller.cols # <<>>) =>
              /\ ret.kind = "value"
              /\ DOMAIN ret.value = {"shape", "dtypes", "missing", "describe"}
              /\ ret.value.shape = <<Len(Caller.index), Len(Caller.cols)>>
              /\ DOMAIN ret.value.dtypes = Columns(Caller)
              /\ DOMAIN ret.value.describe = Columns(Caller)
              /\ \A c \in Columns(Caller) :
                    /\ ret.value.dtypes[c] = Caller.data[c].dtype
                    /\ ret.value.missing[c] + ret.value.describe[c].count = Len(Caller.index)
                    /\ (ret.value.missing[c] = 0) = (NaN \notin Range(Caller.data[c].vals))

\* The fallback mapping of a table of two rows and two columns with one
\* missing price, asked for lazily.
FallbackReached ==
    /\ call.op = "profile"
    /\ call.engine = "ydata"
    /\ ~call.installed
    /\ call.lazy
    /\ ret.kind = "value"
    /\ ret.value.shape = <<2, 2>>
    /\ "price" \in Columns(Caller)
    /\ ret.value.missing["price"] = 1

\* The fallback of a table without columns raises.
FallbackRaisedReached ==
    /\ call.op = "profile"
    /\ call.engine = "ydata"
    /\ ~call.installed
    /\ Caller.cols = <<>>
    /\ ret.kind = "error"
    /\ ret.exc = "ValueError"

\* An unrecognized engine raised although ydata_profiling cannot be imported.
UnsupportedEngineReached ==
    /\ call.op = "profile"
    /\ call.engine = "bogus"
    /\ ~call.installed
    /\ ret.kind = "error"

------------------------------------------------------------------------------
\* C13: config merges the given options into the facade's configuration
\* store (a given key takes the given value, whatever it held; the other
\* keys keep theirs), returns the facade it was called on, and leaves the
\* table, its provenance and every other table as they were; the facade of a
\* table returned by validate, derive, cast or lookup is another facade,
\* whose store is empty.
C13_Config ==
    [][/\ Calls("config") =>
            /\ DOMAIN config' = DOMAIN config \cup DOMAIN call'.kwargs
            /\ \A k \in DOMAIN call'.kwargs : config'[k] = call'.kwargs[k]
            /\ \A k \in DOMAIN config \ DOMAIN call'.kwargs : config'[k] = config[k]
            /\ ret' = Facade(self)
            /\ self' = self
            /\ obj' = obj
            /\ heap' = heap
       /\ (ret.kind = "table" /\ call'.op = "none") =>
            /\ call.op \in {"validate", "derive", "cast", "lookup"}
            /\ obj' = ret.id
            /\ self' # self
            /\ config' = EmptyConfig]_vars

\* C13 witness: the third config call on one facade gave registry_url a new
\* value; the value set first is gone and the secret set second is kept.
C13_Witness ==
    /\ call.op = "config"
    /\ call.kwargs = [registry_url |-> "https://mirror.example.com"]
    /\ nconfig = 3
    /\ ret = Facade(self)
    /\ config = [registry_url |-> "https://mirror.example.com", secret |-> "token"]

\* A configured facade's table was derived from, and the returned table's
\* facade has nothing configured until config is called on it.
ConfigNotCarriedReached ==
    /\ hist = <<"derive">>
    /\ nconfig = 1
    /\ call.op = "none"
    /\ config = EmptyConfig
    /\ self = 2

\* The table-returning calls and profile leave the store alone.
OnlyConfigWrites ==
    [][(call'.op \notin {"config", "none"}) => (config' = config /\ self' = self)]_vars

====
